---- MODULE Spec2Model ----
(***************************************************************************)
(* wagtail_ai/views.py: the `process` endpoint, its two handlers           *)
(* (_replace_handler, _append_handler) and the backend call wrapper        *)
(* (_process_backend_request).                                             *)
(*                                                                         *)
(* A Python str is a sequence of one-character strings.  LF and CR stand   *)
(* for the characters "\n" and "\r".  The AI backend, the tokenizer and    *)
(* the text splitter are external: what they answer is an input of the     *)
(* step that calls them.                                                   *)
(***************************************************************************)
EXTENDS Integers, Sequences, FiniteSets, TLC

VARIABLES
    linesep,    \* os.linesep of the platform
    pc,         \* where the request being served is: idle, handler, replace_loop, respond
    request,    \* request.POST of the request being served
    prompt,     \* process: prompt (the result of get_prompt_by_id)
    handler,    \* process: handler
    ran,        \* the handlers entered for this request
    text,       \* the handler's local `text`
    texts,      \* _replace_handler: texts (the splitter's chunks)
    spans,      \* where the splitter took each chunk from, in the original text
    i,          \* _replace_handler: number of loop iterations completed
    tokens,     \* _append_handler: tokens
    calls,      \* the backend.chat calls of this request, in order
    reply,      \* what _process_backend_request gave for the latest call
    message,    \* the handler's local `message` after the clean-up
    result,     \* how the handler ended: returned a value or raised
    response    \* what process gave back

vars == <<linesep, pc, request, prompt, handler, ran, text, texts, spans, i,
          tokens, calls, reply, message, result, response>>

-----------------------------------------------------------------------------
(* Bounds of the model *)

MaxTextLen == 2
MaxChunks == 2
MaxReplyLen == 1
MaxMsgLen == 4

(* views.py:15 *)
DEFAULT_MAX_TOKENS == 4096

LF == "LF"
CR == "CR"

StrOver(A, n) == UNION {[1..k -> A] : k \in 0..n}

TextAlphabet == {"a", "b"}
ReplyAlphabet == {"b", LF}
MsgAlphabet == {"a", "b", LF, CR}

-----------------------------------------------------------------------------
(* Python built-ins used by the handlers *)

\* sep.join(parts)
RECURSIVE join(_, _)
join(sep, parts) ==
    IF parts = <<>> THEN <<>>
    ELSE IF Len(parts) = 1 THEN parts[1]
    ELSE parts[1] \o sep \o join(sep, Tail(parts))

\* str.splitlines(): breaks at "\n", "\r" and "\r\n" (one break); no trailing
\* empty line; "" has no lines.
RECURSIVE splitlines_from(_, _)
splitlines_from(s, cur) ==
    IF s = <<>> THEN (IF cur = <<>> THEN <<>> ELSE <<cur>>)
    ELSE IF Head(s) = CR /\ Len(s) >= 2 /\ s[2] = LF
         THEN <<cur>> \o splitlines_from(SubSeq(s, 3, Len(s)), <<>>)
    ELSE IF Head(s) \in {LF, CR}
         THEN <<cur>> \o splitlines_from(Tail(s), <<>>)
    ELSE splitlines_from(Tail(s), Append(cur, Head(s)))

splitlines(s) == splitlines_from(s, <<>>)

\* [s for s in lines if s]
RECURSIVE non_empty(_)
non_empty(lines) ==
    IF lines = <<>> THEN <<>>
    ELSE IF Head(lines) = <<>> THEN non_empty(Tail(lines))
    ELSE <<Head(lines)>> \o non_empty(Tail(lines))

\* str.replace(old, new) for a non-empty old: every non-overlapping occurrence,
\* found left to right, is replaced.
RECURSIVE str_replace(_, _, _)
str_replace(s, old, new) ==
    IF Len(s) < Len(old) THEN s
    ELSE IF SubSeq(s, 1, Len(old)) = old
         THEN new \o str_replace(SubSeq(s, Len(old) + 1, Len(s)), old, new)
    ELSE <<Head(s)>> \o str_replace(Tail(s), old, new)

-----------------------------------------------------------------------------
(* The clean-up of an AI response: views.py:69 and views.py:83 *)

clean_keep_blank(sep, m) == join(sep, splitlines(m))

clean(sep, m) == join(sep, non_empty(splitlines(m)))

\* "\n".join([prompt.prompt, split])
full_prompt_of(p, split) == join(<<LF>>, <<p.prompt, split>>)

-----------------------------------------------------------------------------
(* The external world *)

\* backend.chat either returns a message or raises.
RateLimitErrors == {"anthropic.RateLimitError", "openai.RateLimitError"}
\* TimeoutError stands for the classes that derive from Exception,
\* KeyboardInterrupt for those that derive from BaseException only.
ExceptionClasses == RateLimitErrors \cup {"TimeoutError"}
BaseExceptionClasses == ExceptionClasses \cup {"KeyboardInterrupt"}

Replies == StrOver(ReplyAlphabet, MaxReplyLen)

Outcomes ==
    {[kind |-> "ok", exc |-> "", value |-> m] : m \in Replies}
    \cup {[kind |-> "raise", exc |-> e, value |-> <<>>] : e \in BaseExceptionClasses}

\* _splitter_length(text): the tokenizer's count
TokenCounts == {DEFAULT_MAX_TOKENS - 1, DEFAULT_MAX_TOKENS, DEFAULT_MAX_TOKENS + 1}

\* splitter.split_text(text): chunks taken from the text, left to right
SpansOf(t) == {sp \in [s : 1..Len(t), e : 1..Len(t)] : sp.s <= sp.e}

SplitsOf(t) ==
    {sp \in UNION {[1..k -> SpansOf(t)] : k \in 0..MaxChunks} :
        \A j \in 1..(Len(sp) - 1) : sp[j].s < sp[j + 1].s /\ sp[j].e <= sp[j + 1].e}

ChunksOf(t, sp) == [j \in 1..Len(sp) |-> SubSeq(t, sp[j].s, sp[j].e)]

\* The prompts configured (wagtail_ai/prompts.py)
Prompts ==
    {[id |-> 1, prompt |-> <<"p">>, method |-> "REPLACE"],
     [id |-> 2, prompt |-> <<"q">>, method |-> "APPEND"]}

NoPrompt == [id |-> 0, prompt |-> <<>>, method |-> ""]

get_prompt_by_id(id) ==
    IF \E p \in Prompts : p.id = id
    THEN CHOOSE p \in Prompts : p.id = id
    ELSE NoPrompt

\* request.POST: each field is given or not
TextFields ==
    {[given |-> FALSE, value |-> <<>>]}
    \cup {[given |-> TRUE, value |-> t] : t \in StrOver(TextAlphabet, MaxTextLen)}

PromptFields ==
    {[given |-> FALSE, value |-> ""]}
    \cup {[given |-> TRUE, value |-> v] : v \in {"1", "2", "3", "abc"}}

Requests == [text : TextFields, prompt : PromptFields]

\* int(prompt_idx): TypeError for None, ValueError for a non-number
int_of(field) ==
    IF ~field.given THEN [ok |-> FALSE, exc |-> "TypeError", value |-> 0]
    ELSE IF field.value = "1" THEN [ok |-> TRUE, exc |-> "", value |-> 1]
    ELSE IF field.value = "2" THEN [ok |-> TRUE, exc |-> "", value |-> 2]
    ELSE IF field.value = "3" THEN [ok |-> TRUE, exc |-> "", value |-> 3]
    ELSE [ok |-> FALSE, exc |-> "ValueError", value |-> 0]

-----------------------------------------------------------------------------
(* Values *)

NoResult == [kind |-> "none", exc |-> "", error |-> "", value |-> <<>>]
Returned(v) == [kind |-> "return", exc |-> "", error |-> "", value |-> v]
Raised(e, msg) == [kind |-> "raise", exc |-> e, error |-> msg, value |-> <<>>]

NoResponse == [kind |-> "none", status |-> 0, exc |-> "", body |-> <<>>]
JsonResponse(body, status) == [kind |-> "json", status |-> status, exc |-> "", body |-> body]
Unhandled(e) == [kind |-> "exception", status |-> 0, exc |-> e, body |-> <<>>]

RateLimitMessage == "Rate limit exceeded. Please try again later."
GenericMessage == "Error processing request, Please try again later."
TooLongMessage == "Cannot run completion on text this long"
NoTextMessage ==
    "No text provided - please enter some text before using AI                     features"
InvalidPromptMessage == "Invalid prompt provided"

-----------------------------------------------------------------------------
(* _process_backend_request, views.py:29-55: the translation of what         *)
(* backend.chat did.  `except Exception` does not catch an exception that    *)
(* derives from BaseException only: that one propagates as it is.            *)

process_backend_request_swapped(outcome) ==
    IF outcome.kind = "ok" THEN Returned(outcome.value)
    ELSE IF outcome.exc \in RateLimitErrors
         THEN Raised("AIHandlerException", GenericMessage)
    ELSE IF outcome.exc \in ExceptionClasses
         THEN Raised("AIHandlerException", RateLimitMessage)
    ELSE Raised(outcome.exc, "")

_process_backend_request(outcome) ==
    IF outcome.kind = "ok" THEN Returned(outcome.value)
    ELSE IF outcome.exc \in RateLimitErrors
         THEN Raised("AIHandlerException", RateLimitMessage)
    ELSE IF outcome.exc \in ExceptionClasses
         THEN Raised("AIHandlerException", GenericMessage)
    ELSE Raised(outcome.exc, "")

(* process, views.py:106-111: the dispatch table *)
handlers_swapped(method) ==
    CASE method = "REPLACE" -> "_append_handler"
      [] method = "APPEND" -> "_replace_handler"

handlers(method) ==
    CASE method = "REPLACE" -> "_replace_handler"
      [] method = "APPEND" -> "_append_handler"

(* process, views.py:112-117: the response built from how the handler ended; *)
(* only AIHandlerException is caught.                                        *)
response_of_both(res) ==
    IF res.kind = "return" THEN JsonResponse([message |-> res.value], 200)
    ELSE IF res.exc = "AIHandlerException"
         THEN JsonResponse([error |-> res.error, message |-> res.value], 400)
    ELSE Unhandled(res.exc)

response_of(res) ==
    IF res.kind = "return" THEN JsonResponse([message |-> res.value], 200)
    ELSE IF res.exc = "AIHandlerException"
         THEN JsonResponse([error |-> res.error], 400)
    ELSE Unhandled(res.exc)

(* process, views.py:90-104: the fields are read, the prompt id converted   *)
(* and looked up, then the text and the prompt are checked.  The result is   *)
(* the response of a request that ends there, NoResponse otherwise.          *)
found_prompt(req) ==
    IF int_of(req.prompt).ok THEN get_prompt_by_id(int_of(req.prompt).value)
    ELSE NoPrompt

validate_cached(req) ==
    IF response.kind = "json" /\ response.status = 200 /\ req.prompt = request.prompt
    THEN response
    ELSE IF ~int_of(req.prompt).ok THEN Unhandled(int_of(req.prompt).exc)
    ELSE IF ~req.text.given \/ req.text.value = <<>>
         THEN JsonResponse([error |-> NoTextMessage], 400)
    ELSE IF found_prompt(req) = NoPrompt
         THEN JsonResponse([error |-> InvalidPromptMessage], 400)
    ELSE NoResponse

validate(req) ==
    IF ~int_of(req.prompt).ok THEN Unhandled(int_of(req.prompt).exc)
    ELSE IF ~req.text.given \/ req.text.value = <<>>
         THEN JsonResponse([error |-> NoTextMessage], 400)
    ELSE IF found_prompt(req) = NoPrompt
         THEN JsonResponse([error |-> InvalidPromptMessage], 400)
    ELSE NoResponse

(* _append_handler, views.py:77 *)
too_long_ge(n) == n >= DEFAULT_MAX_TOKENS

too_long(n) == n > DEFAULT_MAX_TOKENS

-----------------------------------------------------------------------------
(* The state before any request *)

Blank ==
    /\ pc = "idle"
    /\ request = [text |-> [given |-> FALSE, value |-> <<>>],
                  prompt |-> [given |-> FALSE, value |-> ""]]
    /\ prompt = NoPrompt
    /\ handler = ""
    /\ ran = {}
    /\ text = <<>>
    /\ texts = <<>>
    /\ spans = <<>>
    /\ i = 0
    /\ tokens = 0
    /\ calls = <<>>
    /\ reply = NoResult
    /\ message = <<>>
    /\ result = NoResult
    /\ response = NoResponse

Init ==
    /\ linesep \in {<<LF>>, <<CR, LF>>}
    /\ Blank

(* process, views.py:89-111: a request arrives and is validated; if it is    *)
(* valid the handler is chosen.  The locals of the call are fresh.           *)
Process(req) ==
    /\ pc = "idle"
    /\ request' = req
    /\ text' = req.text.value
    /\ ran' = {}
    /\ texts' = <<>>
    /\ spans' = <<>>
    /\ i' = 0
    /\ tokens' = 0
    /\ calls' = <<>>
    /\ reply' = NoResult
    /\ message' = <<>>
    /\ result' = NoResult
    /\ LET early == validate(req)
       IN  /\ prompt' = found_prompt(req)
           /\ response' = early
           /\ IF early.kind = "none"
              THEN /\ handler' = handlers(found_prompt(req).method)
                   /\ pc' = "handler"
              ELSE /\ handler' = ""
                   /\ pc' = "idle"
    /\ UNCHANGED linesep

(* _replace_handler, views.py:58-62: the splitter cuts the text *)
ReplaceSplit ==
    /\ pc = "handler"
    /\ handler = "_replace_handler"
    /\ ran' = ran \cup {"_replace_handler"}
    /\ \E sp \in SplitsOf(text) :
           /\ spans' = sp
           /\ texts' = ChunksOf(text, sp)
    /\ i' = 0
    /\ pc' = "replace_loop"
    /\ UNCHANGED <<linesep, request, prompt, handler, text, tokens, calls, reply,
                   message, result, response>>

(* _replace_handler, views.py:64-70: one iteration of the loop *)
ReplaceIterRetry(outcome) ==
    /\ pc = "replace_loop"
    /\ i < Len(texts)
    /\ LET split == texts[i + 1]
           full_prompt == full_prompt_of(prompt, split)
           r == _process_backend_request(outcome)
           cleaned == clean(linesep, r.value)
       IN  /\ calls' = Append(calls, [prompt |-> full_prompt, outcome |-> outcome])
           /\ reply' = r
           /\ IF r.kind = "return"
              THEN /\ message' = cleaned
                   /\ text' = str_replace(text, split, cleaned)
                   /\ i' = i + 1
                   /\ UNCHANGED <<pc, result>>
              ELSE UNCHANGED <<pc, result, message, text, i>>
    /\ UNCHANGED <<linesep, request, prompt, handler, ran, texts, spans, tokens,
                   response>>

ReplaceIter(outcome) ==
    /\ pc = "replace_loop"
    /\ i < Len(texts)
    /\ LET split == texts[i + 1]
           full_prompt == full_prompt_of(prompt, split)
           r == _process_backend_request(outcome)
           cleaned == clean(linesep, r.value)
       IN  /\ calls' = Append(calls, [prompt |-> full_prompt, outcome |-> outcome])
           /\ reply' = r
           /\ IF r.kind = "return"
              THEN /\ message' = cleaned
                   /\ text' = str_replace(text, split, cleaned)
                   /\ i' = i + 1
                   /\ UNCHANGED <<pc, result>>
              ELSE /\ result' = r
                   /\ pc' = "respond"
                   /\ UNCHANGED <<message, text, i>>
    /\ UNCHANGED <<linesep, request, prompt, handler, ran, texts, spans, tokens,
                   response>>

(* _replace_handler, views.py:72: the loop is over *)
ReplaceReturn ==
    /\ pc = "replace_loop"
    /\ i = Len(texts)
    /\ result' = Returned(text)
    /\ pc' = "respond"
    /\ UNCHANGED <<linesep, request, prompt, handler, ran, text, texts, spans, i,
                   tokens, calls, reply, message, response>>

(* _append_handler, views.py:75-85 *)
AppendHandler(n, outcome) ==
    /\ pc = "handler"
    /\ handler = "_append_handler"
    /\ ran' = ran \cup {"_append_handler"}
    /\ tokens' = n
    /\ IF too_long(n)
       THEN /\ result' = Raised("AIHandlerException", TooLongMessage)
            /\ UNCHANGED <<calls, reply, message>>
       ELSE LET full_prompt == full_prompt_of(prompt, text)
                r == _process_backend_request(outcome)
                cleaned == clean(linesep, r.value)
            IN  /\ calls' = Append(calls, [prompt |-> full_prompt, outcome |-> outcome])
                /\ reply' = r
                /\ IF r.kind = "return"
                   THEN /\ message' = cleaned
                        /\ result' = Returned(cleaned)
                   ELSE /\ result' = r
                        /\ UNCHANGED message
    /\ pc' = "respond"
    /\ UNCHANGED <<linesep, request, prompt, handler, text, texts, spans, i, response>>

(* process, views.py:112-117: the handler has ended *)
Respond ==
    /\ pc = "respond"
    /\ response' = response_of(result)
    /\ pc' = "idle"
    /\ UNCHANGED <<linesep, request, prompt, handler, ran, text, texts, spans, i,
                   tokens, calls, reply, message, result>>

Next ==
    \/ \E req \in Requests : Process(req)
    \/ ReplaceSplit
    \/ \E outcome \in Outcomes : ReplaceIter(outcome)
    \/ ReplaceReturn
    \/ \E n \in TokenCounts, outcome \in Outcomes : AppendHandler(n, outcome)
    \/ Respond

Spec == Init /\ [][Next]_vars

-----------------------------------------------------------------------------
(* The clean-up on its own: every message up to MaxMsgLen characters, under  *)
(* both line separators, cleaned (views.py:69, views.py:83) and cleaned      *)
(* again.                                                                    *)

Messages == StrOver(MsgAlphabet, MaxMsgLen)

InitClean ==
    /\ linesep \in {<<LF>>, <<CR, LF>>}
    /\ pc = "clean"
    /\ request = [text |-> [given |-> FALSE, value |-> <<>>],
                  prompt |-> [given |-> FALSE, value |-> ""]]
    /\ prompt = NoPrompt
    /\ handler = ""
    /\ ran = {}
    /\ text = <<>>
    /\ texts = <<>>
    /\ spans = <<>>
    /\ i = 0
    /\ tokens = 0
    /\ calls = <<>>
    /\ reply \in {Returned(m) : m \in Messages}
    /\ message = <<>>
    /\ result = NoResult
    /\ response = NoResponse

CleanUp ==
    /\ pc = "clean"
    /\ message' = clean(linesep, reply.value)
    /\ pc' = "cleaned"
    /\ UNCHANGED <<linesep, request, prompt, handler, ran, text, texts, spans, i,
                   tokens, calls, reply, result, response>>

CleanAgain ==
    /\ pc = "cleaned"
    /\ result' = Returned(clean(linesep, message))
    /\ pc' = "recleaned"
    /\ UNCHANGED <<linesep, request, prompt, handler, ran, text, texts, spans, i,
                   tokens, calls, reply, message, response>>

NextClean == CleanUp \/ CleanAgain

SpecClean == InitClean /\ [][NextClean]_vars

-----------------------------------------------------------------------------
(* Properties *)

Finished == pc = "idle" /\ response.kind /= "none"

Last(seq) == seq[Len(seq)]

OutcomesOf(log) == [k \in 1..Len(log) |-> log[k].outcome]

\* C1, as stated: whatever backend.chat raises, the caller of
\* _process_backend_request sees AIHandlerException with the rate-limit message
\* (an anthropic or openai RateLimitError) or the generic message (anything
\* else); a message returned comes back unchanged.
C1_EveryExceptionTranslated ==
    calls /= <<>> =>
        LET o == Last(calls).outcome
        IN  /\ o.kind = "ok" => reply = Returned(o.value)
            /\ o.kind = "raise" /\ o.exc \in RateLimitErrors
                   => reply = Raised("AIHandlerException", RateLimitMessage)
            /\ o.kind = "raise" /\ o.exc \notin RateLimitErrors
                   => reply = Raised("AIHandlerException", GenericMessage)

\* C1, amended: the translation covers the exceptions that derive from
\* Exception: a RateLimitError gives AIHandlerException with the rate-limit
\* message, any other Exception gives it with the generic message; an exception
\* that derives from BaseException only propagates as it is; a message returned
\* comes back unchanged.
C1_ExceptionsTranslated ==
    calls /= <<>> =>
        LET o == Last(calls).outcome
        IN  /\ o.kind = "ok" => reply = Returned(o.value)
            /\ o.kind = "raise" /\ o.exc \in RateLimitErrors
                   => reply = Raised("AIHandlerException", RateLimitMessage)
            /\ o.kind = "raise" /\ o.exc \in ExceptionClasses \ RateLimitErrors
                   => reply = Raised("AIHandlerException", GenericMessage)
            /\ o.kind = "raise" /\ o.exc \notin ExceptionClasses
                   => reply.kind = "raise" /\ reply.exc = o.exc

C1_Witness ==
    /\ Len(calls) = 2
    /\ calls[1].outcome.kind = "ok"
    /\ calls[2].outcome.exc = "openai.RateLimitError"
    /\ reply = Raised("AIHandlerException", RateLimitMessage)

\* C2: a request with a non-empty text and a found prompt enters only the
\* handler its prompt's method names (_replace_handler for REPLACE,
\* _append_handler for APPEND), and has entered it once the handler phase is
\* over.
C2_HandlerByMethod ==
    LET valid == /\ request.text.given
                 /\ request.text.value /= <<>>
                 /\ found_prompt(request) /= NoPrompt
        expected == IF found_prompt(request).method = "REPLACE"
                    THEN "_replace_handler" ELSE "_append_handler"
    IN  valid =>
            /\ ran \subseteq {expected}
            /\ (pc \in {"replace_loop", "respond"} \/ Finished) => ran = {expected}

C2_Witness ==
    /\ Finished
    /\ request.text.value /= <<>>
    /\ prompt.method = "APPEND"
    /\ ran = {"_append_handler"}
    /\ calls /= <<>>

\* The text with each chunk's place taken by that chunk's response
RECURSIVE splice(_, _, _, _)
splice(t, sp, rs, k) ==
    IF k = 0 THEN t
    ELSE splice(SubSeq(t, 1, sp[k].s - 1) \o rs[k] \o SubSeq(t, sp[k].e + 1, Len(t)),
                sp, rs, k - 1)

Disjoint(sp) == \A j \in 1..(Len(sp) - 1) : sp[j].e < sp[j + 1].s

\* C3: when every backend call succeeds, what _replace_handler returns is the
\* original text with each chunk replaced by the cleaned response to that chunk
\* and the text outside the chunks unchanged (stated for chunks that do not
\* overlap, where "in place of that chunk" has one meaning).
C3_ReplaceIsSplice ==
    (handler = "_replace_handler" /\ result.kind = "return" /\ Disjoint(spans)) =>
        result.value =
            splice(request.text.value, spans,
                   [k \in 1..Len(calls) |-> clean(linesep, calls[k].outcome.value)],
                   Len(spans))

\* C4: the backend is called once per chunk at most, in the splitter's order,
\* with the prompt, a newline and the chunk; only the last call of a request can
\* have failed (no retry, nothing after a failure); when _replace_handler
\* returns there is one call per chunk; _append_handler calls once at most.
C4_OneCallPerChunk ==
    /\ \A k \in 1..(Len(calls) - 1) : calls[k].outcome.kind = "ok"
    /\ handler = "_replace_handler" =>
        /\ Len(calls) <= Len(texts)
        /\ \A k \in 1..Len(calls) :
               calls[k].prompt = prompt.prompt \o <<LF>> \o texts[k]
        /\ result.kind = "return" => Len(calls) = Len(texts)
        /\ result.kind = "raise" => Last(calls).outcome.kind = "raise"
    /\ handler = "_append_handler" => Len(calls) <= 1
    /\ handler = "" => calls = <<>>

C4_Witness ==
    /\ handler = "_replace_handler"
    /\ Len(texts) = 2
    /\ Len(calls) = 2
    /\ texts[1] /= texts[2]
    /\ result.kind = "return"

\* C5, as stated: every request whose handler ran gets a JSON response with
\* exactly one of the keys "message" and "error": status 400 and the
\* exception's message under "error" if the handler raised AIHandlerException,
\* status 200 and the handler's value under "message" if it returned.
C5_AlwaysJsonResponse ==
    (Finished /\ ran /= {}) =>
        /\ response.kind = "json"
        /\ DOMAIN response.body \in {{"message"}, {"error"}}
        /\ result.kind = "raise" =>
               response = JsonResponse([error |-> result.error], 400)
        /\ result.kind = "return" =>
               response = JsonResponse([message |-> result.value], 200)

\* C5, amended: every request whose handler returned or raised
\* AIHandlerException gets a JSON response with exactly one of the keys:
\* status 400 and the exception's message under "error" (and no "message") if it
\* raised, status 200 and the handler's value under "message" if it returned.
\* Any other exception leaves process unhandled: there is no JSON response.
C5_JsonResponse ==
    (Finished /\ ran /= {}) =>
        /\ (result.kind = "raise" /\ result.exc = "AIHandlerException") =>
               /\ response = JsonResponse([error |-> result.error], 400)
               /\ DOMAIN response.body = {"error"}
        /\ result.kind = "return" =>
               /\ response = JsonResponse([message |-> result.value], 200)
               /\ DOMAIN response.body = {"message"}
        /\ (result.kind = "raise" /\ result.exc /= "AIHandlerException") =>
               response.kind = "exception"

C5_Witness ==
    /\ Finished
    /\ handler = "_replace_handler"
    /\ i = 1
    /\ text /= request.text.value
    /\ result = Raised("AIHandlerException", GenericMessage)
    /\ response = JsonResponse([error |-> GenericMessage], 400)

\* What _replace_handler gives for a text, a prompt, the splitter's chunks and
\* the backend's outcomes, call after call
RECURSIVE replace_result(_, _, _, _)
replace_result(t, chunks, outs, k) ==
    IF k > Len(chunks) THEN Returned(t)
    ELSE IF k > Len(outs) THEN NoResult
    ELSE IF _process_backend_request(outs[k]).kind /= "return"
         THEN _process_backend_request(outs[k])
    ELSE replace_result(
             str_replace(t, chunks[k],
                         clean(linesep, _process_backend_request(outs[k]).value)),
             chunks, outs, k + 1)

append_result(toks, outs) ==
    IF toks > DEFAULT_MAX_TOKENS THEN Raised("AIHandlerException", TooLongMessage)
    ELSE IF outs = <<>> THEN NoResult
    ELSE IF _process_backend_request(outs[1]).kind /= "return"
         THEN _process_backend_request(outs[1])
    ELSE Returned(clean(linesep, _process_backend_request(outs[1]).value))

\* The response as a function of the request and of what the tokenizer, the
\* splitter and the backend answered during that request
determined_response(req, toks, chunks, outs) ==
    IF ~int_of(req.prompt).ok THEN Unhandled(int_of(req.prompt).exc)
    ELSE IF ~req.text.given \/ req.text.value = <<>>
         THEN JsonResponse([error |-> NoTextMessage], 400)
    ELSE IF found_prompt(req) = NoPrompt
         THEN JsonResponse([error |-> InvalidPromptMessage], 400)
    ELSE LET res == IF found_prompt(req).method = "REPLACE"
                    THEN replace_result(req.text.value, chunks, outs, 1)
                    ELSE append_result(toks, outs)
         IN  IF res.kind = "return" THEN JsonResponse([message |-> res.value], 200)
             ELSE IF res.exc = "AIHandlerException"
                  THEN JsonResponse([error |-> res.error], 400)
             ELSE Unhandled(res.exc)

\* C6: the response to a request is a function of that request's text and
\* prompt and of what the tokenizer, the splitter and the backend answered
\* during it; nothing of an earlier request enters it.
C6_ResponseDetermined ==
    Finished => response = determined_response(request, tokens, texts, OutcomesOf(calls))

C6_Witness ==
    /\ Finished
    /\ handler = "_replace_handler"
    /\ Len(calls) = 2
    /\ response.kind = "json"
    /\ response.status = 200
    /\ response.body.message /= request.text.value

\* C8: _append_handler raises AIHandlerException("Cannot run completion on
\* text this long") without a backend call when the token count is above 4096;
\* otherwise (4096 included) it makes one call with the prompt, a newline and
\* the whole text, and what it returns is the cleaned response alone.
C8_AppendNeverChunks ==
    (handler = "_append_handler" /\ pc = "respond") =>
        /\ tokens > 4096 =>
               /\ calls = <<>>
               /\ result = Raised("AIHandlerException", TooLongMessage)
        /\ tokens <= 4096 =>
               /\ Len(calls) = 1
               /\ calls[1].prompt = prompt.prompt \o <<LF>> \o request.text.value
               /\ calls[1].outcome.kind = "ok" =>
                      result = Returned(clean(linesep, calls[1].outcome.value))
               /\ result.kind = "return" => calls[1].outcome.kind = "ok"

C8_Witness ==
    /\ handler = "_append_handler"
    /\ pc = "respond"
    /\ tokens = 4096
    /\ Len(calls) = 1
    /\ result.kind = "return"
    /\ result.value /= <<>>

\* C9: a request whose text is missing or empty gets status 400 and the "No
\* text provided" error, also when its prompt is not found; a request with a
\* text whose prompt id names no prompt gets status 400 and "Invalid prompt
\* provided"; in both cases no handler runs and the backend is not called.
C9_ValidationFirst ==
    /\ (Finished /\ (~request.text.given \/ request.text.value = <<>>)) =>
           /\ response = JsonResponse([error |-> NoTextMessage], 400)
           /\ ran = {}
           /\ calls = <<>>
    /\ (Finished /\ request.text.given /\ request.text.value /= <<>>
          /\ int_of(request.prompt).ok /\ found_prompt(request) = NoPrompt) =>
           /\ response = JsonResponse([error |-> InvalidPromptMessage], 400)
           /\ ran = {}
           /\ calls = <<>>

\* C10: the cleaned message has no empty line, its lines are the non-empty
\* lines of the response in their order, it is those lines joined by the line
\* separator, a response of empty lines only gives the empty string, and
\* cleaning the cleaned message changes nothing.
C10_CleanUp ==
    pc \in {"cleaned", "recleaned"} =>
        /\ \A k \in 1..Len(splitlines(message)) : splitlines(message)[k] /= <<>>
        /\ splitlines(message) = non_empty(splitlines(reply.value))
        /\ message = join(linesep, non_empty(splitlines(reply.value)))
        /\ (\A k \in 1..Len(splitlines(reply.value)) :
                splitlines(reply.value)[k] = <<>>) => message = <<>>
        /\ pc = "recleaned" => result.value = message

C10_Witness ==
    /\ pc = "recleaned"
    /\ linesep = <<CR, LF>>
    /\ Len(splitlines(reply.value)) = 3
    /\ splitlines(reply.value)[2] = <<>>
    /\ Len(splitlines(message)) = 2
    /\ result.value = message

====
